---- MODULE Spec2Model ----
(***************************************************************************)
(* Model of two SharePoint taxonomy commands of CLI for Microsoft 365:     *)
(*   spo term set list   (SpoTermSetListCommand)                           *)
(*   spo term group add  (SpoTermGroupAddCommand)                          *)
(* Each command validates its options, fetches a request digest, posts one *)
(* to three CSOM ProcessQuery batches, decodes the JSON array responses    *)
(* and logs a normalised result.  One behaviour is one command invocation. *)
(*                                                                         *)
(* JavaScript values are tagged records ([t |-> "string", v |-> chars]);   *)
(* text that the code edits (Ids, dates, names) is a sequence of           *)
(* one-character strings, text it only passes along is a one-token         *)
(* sequence.  Array indices are 0-based as in the source.                  *)
(***************************************************************************)
EXTENDS Integers, Sequences, FiniteSets, TLC

VARIABLES
  cmd,          \* which command runs: "list" or "add"
  opts,         \* args.options
  pc,           \* position of the invocation
  valid,        \* result of the command's validator (Undef before it ran)
  webUrl,       \* spoWebUrl / webUrl local of commandAction
  formDigest,   \* FormDigestValue of the digest response
  inflight,     \* requests posted and not yet answered
  reply,        \* the answer the transport delivered to the pending await
  digests,      \* number of digest requests made
  issued,       \* ProcessQuery requests posted, in order
  history,      \* per ProcessQuery round trip: what the transport answered
  reads,        \* indices of the current response array the handler read
  termStore,    \* term-group add: json[json.length - 1] of round trip 1
  termGroup,    \* term-group add: json2[json2.length - 1] of round trip 2
  result,       \* term-set list: json[json.length - 1]
  logged,       \* values passed to logger.log, in order
  outcome,      \* Undef while running, then "ok" or the CommandError
  serverGroups  \* term groups that exist on the server

vars == <<cmd, opts, pc, valid, webUrl, formDigest, inflight, reply, digests,
          issued, history, reads, termStore, termGroup, result, logged,
          outcome, serverGroups>>

----------------------------------------------------------------------------
(* Bounds *)

\* longest response array the server sends
MaxLen == 3
\* most child items in a term set collection
MaxItems == 2

----------------------------------------------------------------------------
(* JavaScript values *)

Undef == [t |-> "undefined"]
Null == [t |-> "null"]
Str(s) == [t |-> "string", v |-> s]
Num(n) == [t |-> "number", v |-> n]
Bool(b) == [t |-> "boolean", v |-> b]
Obj(f) == [t |-> "object", f |-> f]
Arr(a) == [t |-> "array", a |-> a]
\* a thrown Error object
Exception(name) == [t |-> "error", name |-> name]

\* JavaScript truthiness of a value used as a condition
Truthy(v) ==
  CASE v.t \in {"undefined", "null"} -> FALSE
    [] v.t = "string" -> v.v # <<>>
    [] v.t = "number" -> v.v # 0
    [] v.t = "boolean" -> v.v
    [] OTHER -> TRUE

\* o.key on a value that is neither null nor undefined
Get(o, key) ==
  IF o.t = "object" /\ key \in DOMAIN o.f THEN o.f[key] ELSE Undef

\* json[i], 0-based
Index(json, i) ==
  IF json.t = "array" /\ i >= 0 /\ i < Len(json.a) THEN json.a[i + 1] ELSE Undef

\* delete o.key
Delete(o, key) == Obj([k \in DOMAIN o.f \ {key} |-> o.f[k]])

\* o.key = v
Put(o, key, v) == Obj([k \in DOMAIN o.f \cup {key} |-> IF k = key THEN v ELSE o.f[k]])

\* text of a value interpolated into a template literal
TemplateText(v) ==
  CASE v.t = "string" -> v.v
    [] OTHER -> <<v.t>>

----------------------------------------------------------------------------
(* Strings *)

\* position (1-based) of the first occurrence of pat in s, 0 when absent
RECURSIVE IndexFrom(_, _, _)
IndexFrom(s, pat, i) ==
  IF i + Len(pat) - 1 > Len(s) THEN 0
  ELSE IF SubSeq(s, i, i + Len(pat) - 1) = pat THEN i
  ELSE IndexFrom(s, pat, i + 1)

\* String.prototype.replace(pat, rep) with a string pattern: first occurrence only
Replace(s, pat, rep) ==
  LET i == IndexFrom(s, pat, 1)
  IN IF i = 0 THEN s
     ELSE SubSeq(s, 1, i - 1) \o rep \o SubSeq(s, i + Len(pat), Len(s))

GuidPrefix == <<"/", "G", "u", "i", "d", "(">>
DatePrefix == <<"/", "D", "a", "t", "e", "(">>
WrapSuffix == <<")", "/">>

Digits == <<"0", "1", "2", "3", "4", "5", "6", "7", "8", "9">>
DigitValue(c) == (CHOOSE i \in 1..10 : Digits[i] = c) - 1
IsDigit(c) == \E i \in 1..10 : Digits[i] = c

\* Number(text): the empty text is 0, decimal digits are their value, else NaN
RECURSIVE DecimalValue(_)
DecimalValue(s) ==
  IF s = <<>> THEN 0
  ELSE 10 * DecimalValue(SubSeq(s, 1, Len(s) - 1)) + DigitValue(s[Len(s)])

NaN == [t |-> "NaN"]
Number(s) ==
  IF \A i \in 1..Len(s) : IsDigit(s[i]) THEN Num(DecimalValue(s)) ELSE NaN

RECURSIVE ReplaceAll(_, _, _)
\* String.prototype.replace(/pat/g, rep)
ReplaceAll(s, pat, rep) ==
  LET i == IndexFrom(s, pat, 1)
  IN IF i = 0 THEN s
     ELSE SubSeq(s, 1, i - 1) \o rep
          \o ReplaceAll(SubSeq(s, i + Len(pat), Len(s)), pat, rep)

StartsWith(s, pat) == Len(s) >= Len(pat) /\ SubSeq(s, 1, Len(pat)) = pat

----------------------------------------------------------------------------
(* Utilities of the repository that the commands call *)

HexChars == {"0", "1", "2", "3", "4", "5", "6", "7", "8", "9",
             "a", "b", "c", "d", "e", "f"}

\* lengths of the hexadecimal groups of a GUID, scaled down from 8-4-4-4-12
GuidGroups == <<2, 1>>

RECURSIVE GuidShape(_, _)
GuidShape(s, g) ==
  IF g > Len(GuidGroups) THEN s = <<>>
  ELSE LET n == GuidGroups[g]
       IN /\ Len(s) >= n
          /\ \A i \in 1..n : s[i] \in HexChars
          /\ IF g = Len(GuidGroups) THEN Len(s) = n
             ELSE /\ Len(s) > n
                  /\ s[n + 1] = "-"
                  /\ GuidShape(SubSeq(s, n + 2, Len(s)), g + 1)

\* validation.isValidGuid
isValidGuid(v) == v.t = "string" /\ GuidShape(v.v, 1)

HttpsPrefix == <<"h", "t", "t", "p", "s", ":", "/", "/">>

\* validation.isValidSharePointUrl: true, or a value that is not true
isValidSharePointUrl(v) ==
  IF v.t = "string" /\ StartsWith(v.v, HttpsPrefix) THEN Bool(TRUE)
  ELSE Str(TemplateText(v) \o <<" is not a valid SharePoint Online site URL">>)

\* formatting.escapeXml: ampersand, angle brackets and quotes become entities
escapeXml(v) ==
  IF ~Truthy(v) THEN v
  ELSE Str(ReplaceAll(ReplaceAll(ReplaceAll(ReplaceAll(ReplaceAll(v.v,
         <<"&">>, <<"&", "a", "m", "p", ";">>),
         <<"<">>, <<"&", "l", "t", ";">>),
         <<">">>, <<"&", "g", "t", ";">>),
         <<"\"">>, <<"&", "q", "u", "o", "t", ";">>),
         <<"'">>, <<"&", "a", "p", "o", "s", ";">>))

\* Command.handleRejectedODataJsonPromise: the thrown value becomes a CommandError
handleRejectedODataJsonPromise(err) ==
  [t |-> "CommandError",
   message |-> IF err.t = "error" THEN Str(<<err.name>>) ELSE err]

\* the command framework's option-set check: exactly one option of the set is given
optionSetsOk(o) ==
  (o.termGroupId # Undef) # (o.termGroupName # Undef)

\* config.applicationName
applicationName == "CLI for Microsoft 365"

----------------------------------------------------------------------------
(* Options a command can be invoked with *)

EmptyStr == Str(<<>>)
Guid1 == <<"1", "a", "-", "b">>
Guid2 == <<"2", "c", "-", "d">>
Guid3 == <<"3", "e", "-", "f">>

WebUrls == {Undef, EmptyStr, Str(<<"f", "o", "o">>), Str(HttpsPrefix \o <<"c">>)}
GuidOptions == {Undef, EmptyStr, Str(<<"x", "y">>), Str(Guid1)}

ListOptions ==
  [webUrl : WebUrls, termGroupId : GuidOptions,
   termGroupName : {Undef, Str(<<"a", "&", "<">>)}]

AddOptions ==
  [webUrl : WebUrls, id : GuidOptions, name : {Str(<<"n", "\"", ">">>)},
   description : {Undef, EmptyStr, Str(<<"d", "'">>)}]

----------------------------------------------------------------------------
(* Validators *)

\* ListValidate with the GUID check inside the webUrl block
ListValidateNested(o) ==
  IF Truthy(o.webUrl) /\ isValidSharePointUrl(o.webUrl) # Bool(TRUE)
    THEN isValidSharePointUrl(o.webUrl)
  ELSE IF Truthy(o.webUrl) /\ Truthy(o.termGroupId) /\ ~isValidGuid(o.termGroupId)
    THEN Str(TemplateText(o.termGroupId) \o <<" is not a valid GUID">>)
  ELSE Bool(TRUE)

\* SpoTermSetListCommand.#initValidators
ListValidate(o) ==
  IF Truthy(o.webUrl) /\ isValidSharePointUrl(o.webUrl) # Bool(TRUE)
    THEN isValidSharePointUrl(o.webUrl)
  ELSE IF Truthy(o.termGroupId) /\ ~isValidGuid(o.termGroupId)
    THEN Str(TemplateText(o.termGroupId) \o <<" is not a valid GUID">>)
  ELSE Bool(TRUE)

\* SpoTermGroupAddCommand.#initValidators
AddValidate(o) ==
  IF Truthy(o.id) /\ ~isValidGuid(o.id)
    THEN Str(TemplateText(o.id) \o <<" is not a valid GUID">>)
  ELSE IF Truthy(o.webUrl) THEN isValidSharePointUrl(o.webUrl)
  ELSE Bool(TRUE)

----------------------------------------------------------------------------
(* Request bodies.  A request document is the sequence of its elements that *)
(* carry an Id, in document order: the Actions section, then ObjectPaths.   *)

ProcessQueryUrl(url) == TemplateText(url) \o <<"/_vti_bin/client.svc/ProcessQuery">>

\* ListQuery with the ParentId of the object path mistyped
ListQueryWrongParent(o) ==
  IF Truthy(o.termGroupId)
    THEN [tag |-> "Method", Id |-> 62, ParentId |-> 61, Name |-> "GetById",
          Parameters |-> <<[Type |-> "Guid",
                            text |-> <<"{">> \o TemplateText(o.termGroupId) \o <<"}">>]>>]
    ELSE [tag |-> "Method", Id |-> 62, ParentId |-> 61, Name |-> "GetByName",
          Parameters |-> <<[Type |-> "String",
                            text |-> TemplateText(escapeXml(o.termGroupName))]>>]

\* ListQuery with the term group name interpolated as given
ListQueryUnescaped(o) ==
  IF Truthy(o.termGroupId)
    THEN [tag |-> "Method", Id |-> 62, ParentId |-> 60, Name |-> "GetById",
          Parameters |-> <<[Type |-> "Guid",
                            text |-> <<"{">> \o TemplateText(o.termGroupId) \o <<"}">>]>>]
    ELSE [tag |-> "Method", Id |-> 62, ParentId |-> 60, Name |-> "GetByName",
          Parameters |-> <<[Type |-> "String",
                            text |-> TemplateText(o.termGroupName)]>>]

\* term-set list: the GetById / GetByName object path
ListQuery(o) ==
  IF Truthy(o.termGroupId)
    THEN [tag |-> "Method", Id |-> 62, ParentId |-> 60, Name |-> "GetById",
          Parameters |-> <<[Type |-> "Guid",
                            text |-> <<"{">> \o TemplateText(o.termGroupId) \o <<"}">>]>>]
    ELSE [tag |-> "Method", Id |-> 62, ParentId |-> 60, Name |-> "GetByName",
          Parameters |-> <<[Type |-> "String",
                            text |-> TemplateText(escapeXml(o.termGroupName))]>>]

\* term-set list: requestOptions
ListRequest(o, url, digest) ==
  [url |-> ProcessQueryUrl(url),
   digest |-> digest,
   app |-> applicationName,
   data |-> <<
     [tag |-> "ObjectPath", Id |-> 55, ObjectPathId |-> 54],
     [tag |-> "ObjectIdentityQuery", Id |-> 56, ObjectPathId |-> 54],
     [tag |-> "ObjectPath", Id |-> 58, ObjectPathId |-> 57],
     [tag |-> "ObjectIdentityQuery", Id |-> 59, ObjectPathId |-> 57],
     [tag |-> "ObjectPath", Id |-> 61, ObjectPathId |-> 60],
     [tag |-> "ObjectPath", Id |-> 63, ObjectPathId |-> 62],
     [tag |-> "ObjectIdentityQuery", Id |-> 64, ObjectPathId |-> 62],
     [tag |-> "ObjectPath", Id |-> 66, ObjectPathId |-> 65],
     [tag |-> "Query", Id |-> 67, ObjectPathId |-> 65,
      SelectAllProperties |-> FALSE, Properties |-> <<>>,
      ChildItemQuery |-> <<"Name", "Id">>],
     [tag |-> "StaticMethod", Id |-> 54, Name |-> "GetTaxonomySession",
      TypeId |-> "{981cbc68-9edc-4f8d-872f-71146fcbb84f}"],
     [tag |-> "Method", Id |-> 57, ParentId |-> 54,
      Name |-> "GetDefaultSiteCollectionTermStore"],
     [tag |-> "Property", Id |-> 60, ParentId |-> 57, Name |-> "Groups"],
     ListQuery(o),
     [tag |-> "Property", Id |-> 65, ParentId |-> 62, Name |-> "TermSets"] >>]

\* term-group add, round trip 1: requestOptionsPost (the default term store)
AddRequest1(url, digest) ==
  [url |-> ProcessQueryUrl(url),
   digest |-> digest,
   app |-> applicationName,
   data |-> <<
     [tag |-> "ObjectPath", Id |-> 4, ObjectPathId |-> 3],
     [tag |-> "ObjectIdentityQuery", Id |-> 5, ObjectPathId |-> 3],
     [tag |-> "ObjectPath", Id |-> 7, ObjectPathId |-> 6],
     [tag |-> "ObjectIdentityQuery", Id |-> 8, ObjectPathId |-> 6],
     [tag |-> "Query", Id |-> 9, ObjectPathId |-> 6,
      SelectAllProperties |-> TRUE, Properties |-> <<>>],
     [tag |-> "StaticMethod", Id |-> 3, Name |-> "GetTaxonomySession",
      TypeId |-> "{981cbc68-9edc-4f8d-872f-71146fcbb84f}"],
     [tag |-> "Method", Id |-> 6, ParentId |-> 3,
      Name |-> "GetDefaultSiteCollectionTermStore"] >>]

\* term-group add, round trip 2: requestOptions (CreateGroup)
AddRequest2(o, url, digest, store, termGroupId) ==
  [url |-> ProcessQueryUrl(url),
   digest |-> digest,
   app |-> applicationName,
   data |-> <<
     [tag |-> "ObjectPath", Id |-> 14, ObjectPathId |-> 13],
     [tag |-> "ObjectIdentityQuery", Id |-> 15, ObjectPathId |-> 13],
     [tag |-> "Query", Id |-> 16, ObjectPathId |-> 13,
      SelectAllProperties |-> FALSE,
      Properties |-> <<"Name", "Id", "Description">>],
     [tag |-> "Method", Id |-> 13, ParentId |-> 6, Name |-> "CreateGroup",
      Parameters |-> <<[Type |-> "String", text |-> TemplateText(escapeXml(o.name))],
                       [Type |-> "Guid",
                        text |-> <<"{">> \o TemplateText(termGroupId) \o <<"}">>]>>],
     [tag |-> "Identity", Id |-> 6,
      Name |-> TemplateText(Get(store, "_ObjectIdentity_"))] >>]

\* term-group add, round trip 3: requestOptionsQuery (SetProperty Description)
AddRequest3(o, url, digest, group) ==
  [url |-> ProcessQueryUrl(url),
   digest |-> digest,
   app |-> applicationName,
   data |-> <<
     [tag |-> "SetProperty", Id |-> 51, ObjectPathId |-> 45, Name |-> "Description",
      Parameter |-> [Type |-> "String",
                     text |-> TemplateText(escapeXml(o.description))]],
     [tag |-> "Identity", Id |-> 45,
      Name |-> TemplateText(Get(group, "_ObjectIdentity_"))] >>]

----------------------------------------------------------------------------
(* The server and the transport: what a request can be answered with *)

Atom(x) == Str(<<x>>)
WrapGuid(g) == Str(GuidPrefix \o g \o WrapSuffix)
WrapDate(ms) == Str(DatePrefix \o ms \o WrapSuffix)

\* element 0 of a response: the batch metadata
MetaOk == Obj(("SchemaVersion" :> Atom("15.0.0.0")) @@ ("ErrorInfo" :> Null))
MetaErr(m) ==
  Obj(("SchemaVersion" :> Atom("15.0.0.0"))
      @@ ("ErrorInfo" :> Obj(("ErrorMessage" :> Atom(m)) @@ ("ErrorCode" :> Num(-1)))))
NoMeta == Obj("IsNull" :> Bool(FALSE))

Heads == {MetaOk, MetaErr("Access denied"), MetaErr("Group exists"), NoMeta}

\* what the server puts between element 0 and the last element
Decoy ==
  Obj(("_ObjectType_" :> Atom("SP.Taxonomy.Decoy"))
      @@ ("_ObjectIdentity_" :> Atom("decoy")) @@ ("Id" :> WrapGuid(Guid3)))
Fillers == {Num(7), Decoy}

TermStores ==
  { Obj(("_ObjectType_" :> Atom("SP.Taxonomy.TermStore"))
        @@ ("_ObjectIdentity_" :> Atom(i)) @@ ("Name" :> Atom("Taxonomy")))
    : i \in {"store1", "store2"} }

TermGroups ==
  { Obj(("_ObjectType_" :> Atom("SP.Taxonomy.TermGroup"))
        @@ ("_ObjectIdentity_" :> Atom("group1")) @@ ("Name" :> Atom("n"))
        @@ ("Id" :> WrapGuid(Guid1)) @@ ("Description" :> EmptyStr)),
    Obj(("_ObjectIdentity_" :> Atom("group2")) @@ ("Name" :> Atom("n"))
        @@ ("Id" :> WrapGuid(Guid2))),
    Obj(("Name" :> Atom("n")) @@ ("Id" :> Str(Guid1))) }

TermSets ==
  { Obj(("_ObjectType_" :> Atom("SP.Taxonomy.TermSet"))
        @@ ("_ObjectIdentity_" :> Atom("set1")) @@ ("Name" :> Atom("PnP"))
        @@ ("CreatedDate" :> WrapDate(<<"1", "2">>)) @@ ("Id" :> WrapGuid(Guid1))
        @@ ("LastModifiedDate" :> WrapDate(<<"3", "4">>))),
    Obj(("Name" :> Atom("Dept")) @@ ("CreatedDate" :> WrapDate(<<"5">>))
        @@ ("Id" :> WrapGuid(Guid2)) @@ ("LastModifiedDate" :> WrapDate(<<>>))),
    Obj(("Name" :> Atom("Bad")) @@ ("CreatedDate" :> WrapDate(<<"x">>))
        @@ ("Id" :> WrapGuid(Guid3)) @@ ("LastModifiedDate" :> WrapDate(<<"6">>))) }

SeqsUpTo(S, n) == UNION {[1..k -> S] : k \in 0..n}

TermSetCollections ==
  { Obj("_ObjectType_" :> Atom("SP.Taxonomy.TermSetCollection")) }
  \cup { Obj(("_ObjectType_" :> Atom("SP.Taxonomy.TermSetCollection"))
             @@ ("_Child_Items_" :> Arr(items)))
         : items \in SeqsUpTo(TermSets, MaxItems) }

\* the last element of a well-formed response to each request
Results(req) ==
  CASE req = "list" -> TermSetCollections
    [] req = "q1" -> TermStores
    [] req = "q2" -> TermGroups
    [] OTHER -> {NoMeta}

Arrays(req) ==
  {<<>>} \cup {<<h>> : h \in Heads}
  \cup { <<h>> \o m \o <<r>> :
         h \in Heads, m \in SeqsUpTo(Fillers, MaxLen - 2), r \in Results(req) }

\* response texts: empty, not JSON, or the serialisation of an array
Bodies(req) ==
  {[t |-> "text", k |-> "empty"], [t |-> "text", k |-> "garbage"]}
  \cup {[t |-> "text", k |-> "json", v |-> Arr(a)] : a \in Arrays(req)}

None == [t |-> "none"]
Rejected == [t |-> "reject", err |-> Exception("RequestError")]
Resolved(v) == [t |-> "resolve", v |-> v]

\* the ContextInfo that spo.getRequestDigest resolves to
ContextInfos == {Obj("FormDigestValue" :> Atom("digest1"))}

Replies(req) ==
  {Rejected}
  \cup (IF req = "digest" THEN {Resolved(c) : c \in ContextInfos}
        ELSE {Resolved(b) : b \in Bodies(req)})

\* what a ProcessQuery round trip was answered with
Classify(r) ==
  IF r.t = "reject" THEN "transport"
  ELSE IF r.v.k # "json" THEN r.v.k
  ELSE IF Len(r.v.v.a) = 0 THEN "noelements"
  ELSE IF Get(r.v.v.a[1], "ErrorInfo").t = "object" THEN "errorinfo"
  ELSE "ok"

\* the request that is in flight: the command's name for its only round trip,
\* q1, q2, q3 for the round trips of term-group add
Pending == CHOOSE q \in inflight : TRUE
ReqName(q) == IF q = "q1" /\ cmd = "list" THEN "list" ELSE q

\* the Guid parameter of the CreateGroup request
RequestedGroup(req) == req.data[4].Parameters[2].text

ServerReply ==
  /\ inflight # {}
  /\ reply = None
  /\ \E r \in Replies(ReqName(Pending)) :
       /\ reply' = r
       /\ history' = IF Pending = "digest" THEN history
                     ELSE Append(history, [req |-> Pending, status |-> Classify(r),
                                           len |-> IF Classify(r) \in {"errorinfo", "ok"}
                                                   THEN Len(r.v.v.a) ELSE 0])
       /\ IF Pending = "q2" /\ cmd = "add"
            THEN \E created \in BOOLEAN :
                   /\ Classify(r) = "ok" => created
                   /\ Classify(r) = "errorinfo" => ~created
                   /\ serverGroups' = IF created
                                        THEN serverGroups \cup {RequestedGroup(issued[2])}
                                        ELSE serverGroups
            ELSE serverGroups' = serverGroups
  /\ inflight' = {}
  /\ UNCHANGED <<cmd, opts, pc, valid, webUrl, formDigest, digests, issued, reads,
                 termStore, termGroup, result, logged, outcome>>

----------------------------------------------------------------------------
(* Decoding a response and normalising its result *)

NoThrow == [t |-> "nothrow"]
Threw(x) == x.thrown.t # "nothrow"

\* JSON.parse of a response text
Parses(text) == text.k = "json"
JSONparse(text) == text.v

\* ListDecode with the result element fetched before the ErrorInfo check
ListDecodeEager(text) ==
  IF ~Parses(text)
    THEN [thrown |-> Exception("SyntaxError"), reads |-> {}, result |-> Undef]
  ELSE LET json == JSONparse(text)
           response == Index(json, 0)
       IN IF response.t \in {"undefined", "null"}
            THEN [thrown |-> Exception("TypeError"), reads |-> {0}, result |-> Undef]
          ELSE IF Truthy(Get(response, "ErrorInfo"))
            THEN [thrown |-> Get(Get(response, "ErrorInfo"), "ErrorMessage"),
                  reads |-> {0, Len(json.a) - 1}, result |-> Undef]
          ELSE [thrown |-> NoThrow, reads |-> {0, Len(json.a) - 1},
                result |-> Index(json, Len(json.a) - 1)]

\* term-set list: JSON.parse, the ErrorInfo check, the result element
ListDecode(text) ==
  IF ~Parses(text)
    THEN [thrown |-> Exception("SyntaxError"), reads |-> {}, result |-> Undef]
  ELSE LET json == JSONparse(text)
           response == Index(json, 0)
       IN IF response.t \in {"undefined", "null"}
            THEN [thrown |-> Exception("TypeError"), reads |-> {0}, result |-> Undef]
          ELSE IF Truthy(Get(response, "ErrorInfo"))
            THEN [thrown |-> Get(Get(response, "ErrorInfo"), "ErrorMessage"),
                  reads |-> {0}, result |-> Undef]
          ELSE [thrown |-> NoThrow, reads |-> {0, Len(json.a) - 1},
                result |-> Index(json, Len(json.a) - 1)]

\* AddDecode1 with the result taken from the fixed position 1
AddDecode1Fixed(text) ==
  IF ~Parses(text)
    THEN [thrown |-> Exception("SyntaxError"), reads |-> {}, result |-> Undef]
  ELSE LET json == JSONparse(text)
           response == Index(json, 0)
       IN IF response.t \in {"undefined", "null"}
            THEN [thrown |-> Exception("TypeError"), reads |-> {0}, result |-> Undef]
          ELSE IF Truthy(Get(response, "ErrorInfo"))
            THEN [thrown |-> Get(Get(response, "ErrorInfo"), "ErrorMessage"),
                  reads |-> {0}, result |-> Undef]
          ELSE [thrown |-> NoThrow, reads |-> {0, 1}, result |-> Index(json, 1)]

\* term-group add, round trip 1: the term store
AddDecode1(text) ==
  IF ~Parses(text)
    THEN [thrown |-> Exception("SyntaxError"), reads |-> {}, result |-> Undef]
  ELSE LET json == JSONparse(text)
           response == Index(json, 0)
       IN IF response.t \in {"undefined", "null"}
            THEN [thrown |-> Exception("TypeError"), reads |-> {0}, result |-> Undef]
          ELSE IF Truthy(Get(response, "ErrorInfo"))
            THEN [thrown |-> Get(Get(response, "ErrorInfo"), "ErrorMessage"),
                  reads |-> {0}, result |-> Undef]
          ELSE [thrown |-> NoThrow, reads |-> {0, Len(json.a) - 1},
                result |-> Index(json, Len(json.a) - 1)]

\* term-group add, round trip 2: the created term group
AddDecode2(text) ==
  IF ~Parses(text)
    THEN [thrown |-> Exception("SyntaxError"), reads |-> {}, result |-> Undef]
  ELSE LET json2 == JSONparse(text)
           response2 == Index(json2, 0)
       IN IF response2.t \in {"undefined", "null"}
            THEN [thrown |-> Exception("TypeError"), reads |-> {0}, result |-> Undef]
          ELSE IF Truthy(Get(response2, "ErrorInfo"))
            THEN [thrown |-> Get(Get(response2, "ErrorInfo"), "ErrorMessage"),
                  reads |-> {0}, result |-> Undef]
          ELSE [thrown |-> NoThrow, reads |-> {0, Len(json2.a) - 1},
                result |-> Index(json2, Len(json2.a) - 1)]

\* term-group add, round trip 3: termGroups is undefined when no request was
\* made, else the response text; a falsy text is not looked at
AddDecode3(termGroups) ==
  IF ~(termGroups.t = "text" /\ termGroups.k # "empty")
    THEN [thrown |-> NoThrow, reads |-> {}]
  ELSE IF ~Parses(termGroups)
    THEN [thrown |-> Exception("SyntaxError"), reads |-> {}]
  ELSE LET json == JSONparse(termGroups)
           response == Index(json, 0)
       IN IF response.t \in {"undefined", "null"}
            THEN [thrown |-> Exception("TypeError"), reads |-> {0}]
          ELSE IF Truthy(Get(response, "ErrorInfo"))
            THEN [thrown |-> Get(Get(response, "ErrorInfo"), "ErrorMessage"),
                  reads |-> {0}]
          ELSE [thrown |-> NoThrow, reads |-> {0}]

RECURSIVE ToDecimal(_)
ToDecimal(n) ==
  IF n < 10 THEN <<Digits[n + 1]>> ELSE ToDecimal(n \div 10) \o <<Digits[(n % 10) + 1]>>

\* new Date(ms).toISOString(): the instant as text; an invalid date throws
toISOString(ms) == Str(<<"ISO">> \o ToDecimal(ms.v))

\* value.replace('/Date(', '').replace(')/', '')
UnwrapDate(s) == Replace(Replace(s, DatePrefix, <<>>), WrapSuffix, <<>>)
\* UnwrapGuid with the closing ")/" left in place
UnwrapGuidPrefixOnly(s) == Replace(s, GuidPrefix, <<>>)
\* value.replace('/Guid(', '').replace(')/', '')
UnwrapGuid(s) == Replace(Replace(s, GuidPrefix, <<>>), WrapSuffix, <<>>)

\* term-set list: the callback of _Child_Items_.map
ListMapItem(t) ==
  IF Get(t, "CreatedDate").t # "string"
    THEN [thrown |-> Exception("TypeError"), item |-> t]
  ELSE IF Number(UnwrapDate(Get(t, "CreatedDate").v)) = NaN
    THEN [thrown |-> Exception("RangeError"), item |-> t]
  ELSE IF Get(t, "Id").t # "string"
    THEN [thrown |-> Exception("TypeError"), item |-> t]
  ELSE IF Get(t, "LastModifiedDate").t # "string"
    THEN [thrown |-> Exception("TypeError"), item |-> t]
  ELSE IF Number(UnwrapDate(Get(t, "LastModifiedDate").v)) = NaN
    THEN [thrown |-> Exception("RangeError"), item |-> t]
  ELSE [thrown |-> NoThrow,
        item |-> Put(Put(Put(t,
          "CreatedDate", toISOString(Number(UnwrapDate(Get(t, "CreatedDate").v)))),
          "Id", Str(UnwrapGuid(Get(t, "Id").v))),
          "LastModifiedDate",
          toISOString(Number(UnwrapDate(Get(t, "LastModifiedDate").v))))]

\* term-set list: what is logged for the result element
ListNormalize(res) ==
  LET items == Get(res, "_Child_Items_")
  IN IF ~(items.t = "array" /\ Len(items.a) > 0)
       THEN [thrown |-> NoThrow, logs |-> <<>>]
     ELSE IF \E i \in 1..Len(items.a) : Threw(ListMapItem(items.a[i]))
       THEN [thrown |-> ListMapItem(items.a[CHOOSE i \in 1..Len(items.a) :
                          /\ Threw(ListMapItem(items.a[i]))
                          /\ \A j \in 1..(i - 1) : ~Threw(ListMapItem(items.a[j]))]).thrown,
             logs |-> <<>>]
     ELSE [thrown |-> NoThrow,
           logs |-> <<Arr([i \in 1..Len(items.a) |-> ListMapItem(items.a[i]).item])>>]

\* term-group add: what is logged for the created group
AddNormalize(o, group) ==
  IF Get(group, "Id").t # "string"
    THEN [thrown |-> Exception("TypeError"), logs |-> <<>>]
  ELSE [thrown |-> NoThrow,
        logs |-> <<Put(Put(Delete(Delete(group, "_ObjectIdentity_"), "_ObjectType_"),
                    "Id", Str(UnwrapGuid(Get(group, "Id").v))),
                    "Description",
                    IF Truthy(o.description) THEN o.description ELSE EmptyStr)>>]

\* SetsDescription with the request made whether or not a description was given
SetsDescriptionAlways(o) == TRUE

\* term-group add: whether the description round trip is made
SetsDescription(o) == Truthy(o.description)

----------------------------------------------------------------------------
(* The invocation *)

Ok == [t |-> "ok"]
IsTrue(v) == v.t = "boolean" /\ v.v

\* spo.getSpoAdminUrl resolves to the tenant's admin site
AdminUrl == Str(HttpsPrefix \o <<"c", "-", "a", "d", "m", "i", "n">>)

\* uuid.v4()
NewGuids == {Str(Guid2)}

Init ==
  /\ cmd \in {"list", "add"}
  /\ opts \in (IF cmd = "list" THEN ListOptions ELSE AddOptions)
  /\ pc = "validate"
  /\ valid = Undef
  /\ webUrl = Undef
  /\ formDigest = EmptyStr
  /\ inflight = {}
  /\ reply = None
  /\ digests = 0
  /\ issued = <<>>
  /\ history = <<>>
  /\ reads = {}
  /\ termStore = Undef
  /\ termGroup = Undef
  /\ result = Undef
  /\ logged = <<>>
  /\ outcome = Undef
  /\ serverGroups = {}

\* the framework validates the options and runs commandAction only when the
\* validators and the option sets accept them
Validate ==
  /\ pc = "validate"
  /\ LET v == IF cmd = "list" THEN ListValidate(opts) ELSE AddValidate(opts)
         sets == cmd = "list" => optionSetsOk(opts)
     IN /\ valid' = v
        /\ pc' = IF IsTrue(v) /\ sets THEN "action" ELSE "done"
        /\ outcome' = IF IsTrue(v) /\ sets THEN outcome
                      ELSE IF IsTrue(v)
                        THEN [t |-> "CommandError", message |-> Atom("Specify one of the options")]
                      ELSE [t |-> "CommandError", message |-> v]
  /\ UNCHANGED <<cmd, opts, webUrl, formDigest, inflight, reply, digests, issued,
                 history, reads, termStore, termGroup, result, logged, serverGroups>>

\* term-set list: the catch block
ListCatch(err) ==
  /\ outcome' = handleRejectedODataJsonPromise(err)
  /\ pc' = "done"
  /\ UNCHANGED <<issued, inflight>>

\* AddCatch with the failed request posted again
AddCatchRetry(err) ==
  IF issued = <<>>
    THEN /\ outcome' = handleRejectedODataJsonPromise(err)
         /\ pc' = "done"
         /\ UNCHANGED <<issued, inflight>>
    ELSE /\ issued' = Append(issued, issued[Len(issued)])
         /\ inflight' = {pc}
         /\ UNCHANGED <<pc, outcome>>

\* term-group add: the catch block
AddCatch(err) ==
  /\ outcome' = handleRejectedODataJsonPromise(err)
  /\ pc' = "done"
  /\ UNCHANGED <<issued, inflight>>

\* term-set list: commandAction up to the digest request
ListBegin ==
  /\ cmd = "list" /\ pc = "action"
  /\ \E admin \in (IF Truthy(opts.webUrl) THEN {Undef} ELSE {AdminUrl, Rejected}) :
       IF admin.t = "reject"
         THEN /\ ListCatch(admin.err)
              /\ UNCHANGED <<webUrl, digests>>
         ELSE /\ webUrl' = IF Truthy(opts.webUrl) THEN opts.webUrl ELSE admin
              /\ digests' = digests + 1
              /\ inflight' = {"digest"}
              /\ pc' = "digest"
              /\ UNCHANGED <<outcome, issued>>
  /\ UNCHANGED <<cmd, opts, valid, formDigest, reply, history, reads, termStore,
                 termGroup, result, logged, serverGroups>>

\* term-set list: the digest arrived, the ProcessQuery request is posted
ListDigest ==
  /\ cmd = "list" /\ pc = "digest" /\ reply # None
  /\ IF reply.t = "reject"
       THEN /\ ListCatch(reply.err)
            /\ UNCHANGED <<formDigest, reply>>
       ELSE /\ formDigest' = Get(reply.v, "FormDigestValue")
            /\ issued' = Append(issued, ListRequest(opts, webUrl, formDigest'))
            /\ inflight' = {"q1"}
            /\ reply' = None
            /\ pc' = "q1"
            /\ UNCHANGED outcome
  /\ UNCHANGED <<cmd, opts, valid, webUrl, digests, history, reads, termStore,
                 termGroup, result, logged, serverGroups>>

\* term-set list: the response arrived; decode, normalise, log
ListContinue ==
  /\ cmd = "list" /\ pc = "q1" /\ reply # None
  /\ IF reply.t = "reject"
       THEN /\ ListCatch(reply.err)
            /\ UNCHANGED <<reads, result, logged>>
       ELSE LET d == ListDecode(reply.v)
                n == ListNormalize(d.result)
            IN /\ reads' = d.reads
               /\ result' = d.result
               /\ IF Threw(d) THEN ListCatch(d.thrown) /\ UNCHANGED logged
                  ELSE IF Threw(n) THEN ListCatch(n.thrown) /\ UNCHANGED logged
                  ELSE /\ logged' = logged \o n.logs
                       /\ outcome' = Ok
                       /\ pc' = "done"
                       /\ UNCHANGED <<issued, inflight>>
  /\ UNCHANGED <<cmd, opts, valid, webUrl, formDigest, reply, digests, history,
                 termStore, termGroup, serverGroups>>

\* term-group add: commandAction up to the digest request
AddBegin ==
  /\ cmd = "add" /\ pc = "action"
  /\ \E admin \in (IF Truthy(opts.webUrl) THEN {Undef} ELSE {AdminUrl, Rejected}) :
       IF admin.t = "reject"
         THEN /\ AddCatch(admin.err)
              /\ UNCHANGED <<webUrl, digests>>
         ELSE /\ webUrl' = IF Truthy(opts.webUrl) THEN opts.webUrl ELSE admin
              /\ digests' = digests + 1
              /\ inflight' = {"digest"}
              /\ pc' = "digest"
              /\ UNCHANGED <<outcome, issued>>
  /\ UNCHANGED <<cmd, opts, valid, formDigest, reply, history, reads, termStore,
                 termGroup, result, logged, serverGroups>>

\* term-group add: the digest arrived, the term store request is posted
AddDigest ==
  /\ cmd = "add" /\ pc = "digest" /\ reply # None
  /\ IF reply.t = "reject"
       THEN /\ AddCatch(reply.err)
            /\ UNCHANGED <<formDigest, reply>>
       ELSE /\ formDigest' = Get(reply.v, "FormDigestValue")
            /\ issued' = Append(issued, AddRequest1(webUrl, formDigest'))
            /\ inflight' = {"q1"}
            /\ reply' = None
            /\ pc' = "q1"
            /\ UNCHANGED outcome
  /\ UNCHANGED <<cmd, opts, valid, webUrl, digests, history, reads, termStore,
                 termGroup, result, logged, serverGroups>>

\* term-group add: the term store arrived, the CreateGroup request is posted
AddContinue1 ==
  /\ cmd = "add" /\ pc = "q1" /\ reply # None
  /\ IF reply.t = "reject"
       THEN /\ AddCatch(reply.err)
            /\ UNCHANGED <<reads, termStore, reply>>
       ELSE LET d == AddDecode1(reply.v)
            IN /\ reads' = d.reads
               /\ IF Threw(d)
                    THEN /\ AddCatch(d.thrown)
                         /\ UNCHANGED <<termStore, reply>>
                    ELSE /\ termStore' = d.result
                         /\ \E termGroupId \in (IF Truthy(opts.id) THEN {opts.id}
                                                ELSE NewGuids) :
                              issued' = Append(issued,
                                AddRequest2(opts, webUrl, formDigest, termStore',
                                            termGroupId))
                         /\ inflight' = {"q2"}
                         /\ reply' = None
                         /\ pc' = "q2"
                         /\ UNCHANGED outcome
  /\ UNCHANGED <<cmd, opts, valid, webUrl, formDigest, digests, history, termGroup,
                 result, logged, serverGroups>>

\* AddFinish with logger.log called before the third response is checked
AddFinishLogFirst(termGroups, group) ==
  LET d == AddDecode3(termGroups)
      n == AddNormalize(opts, group)
  IN IF Threw(n) THEN AddCatch(n.thrown) /\ UNCHANGED logged
     ELSE IF Threw(d) THEN AddCatch(d.thrown) /\ logged' = logged \o n.logs
     ELSE /\ logged' = logged \o n.logs
          /\ outcome' = Ok
          /\ pc' = "done"
          /\ UNCHANGED <<issued, inflight>>

\* term-group add: from the description check to logger.log; termGroups is the
\* text of the third response, undefined when that request was not made
AddFinish(termGroups, group) ==
  LET d == AddDecode3(termGroups)
      n == AddNormalize(opts, group)
  IN IF Threw(d) THEN AddCatch(d.thrown) /\ UNCHANGED logged
        ELSE IF Threw(n) THEN AddCatch(n.thrown) /\ UNCHANGED logged
        ELSE /\ logged' = logged \o n.logs
             /\ outcome' = Ok
             /\ pc' = "done"
             /\ UNCHANGED <<issued, inflight>>

\* term-group add: the created group arrived; the description request is
\* posted when a description was given, else the group is logged
AddContinue2 ==
  /\ cmd = "add" /\ pc = "q2" /\ reply # None
  /\ IF reply.t = "reject"
       THEN /\ AddCatch(reply.err)
            /\ UNCHANGED <<reads, termGroup, reply, logged>>
       ELSE LET d == AddDecode2(reply.v)
            IN IF Threw(d)
                 THEN /\ AddCatch(d.thrown)
                      /\ reads' = d.reads
                      /\ UNCHANGED <<termGroup, reply, logged>>
               ELSE IF SetsDescription(opts)
                 THEN /\ termGroup' = d.result
                      /\ reads' = d.reads
                      /\ issued' = Append(issued,
                           AddRequest3(opts, webUrl, formDigest, termGroup'))
                      /\ inflight' = {"q3"}
                      /\ reply' = None
                      /\ pc' = "q3"
                      /\ UNCHANGED <<outcome, logged>>
               ELSE /\ termGroup' = d.result
                    /\ reply' = reply
                    /\ reads' = d.reads
                    /\ AddFinish(Undef, d.result)
  /\ UNCHANGED <<cmd, opts, valid, webUrl, formDigest, digests, history, termStore,
                 result, serverGroups>>

\* term-group add: the answer to the description request arrived
AddContinue3 ==
  /\ cmd = "add" /\ pc = "q3" /\ reply # None
  /\ IF reply.t = "reject"
       THEN /\ AddCatch(reply.err)
            /\ UNCHANGED <<reads, logged>>
       ELSE /\ reads' = AddDecode3(reply.v).reads
            /\ AddFinish(reply.v, termGroup)
  /\ UNCHANGED <<cmd, opts, valid, webUrl, formDigest, reply, digests, history,
                 termStore, termGroup, result, serverGroups>>

Next ==
  \/ Validate
  \/ ServerReply
  \/ ListBegin
  \/ ListDigest
  \/ ListContinue
  \/ AddBegin
  \/ AddDigest
  \/ AddContinue1
  \/ AddContinue2
  \/ AddContinue3

Spec == Init /\ [][Next]_vars

----------------------------------------------------------------------------
(* Properties *)

LastOf(h) == h[Len(h)]
Done == pc = "done"
\* the last round trip's answer is delivered and its handler has not run yet
Unhandled == reply # None /\ ~Done
\* element 0 of the response text in reply
ElementZero == reply.v.v.a[1]
ServerMessage == ElementZero.f["ErrorInfo"].f["ErrorMessage"]

\* C1: a response whose element 0 carries ErrorInfo ends the command with an
\* error whose message is exactly ErrorInfo.ErrorMessage, and of that response
\* only element 0 was read; this holds for every round trip of both commands.
ErrorInfoFailsCommand ==
  \A k \in 1..Len(history) :
    history[k].status = "errorinfo" =>
      \/ k = Len(history) /\ Unhandled
      \/ /\ k = Len(history)
         /\ Done
         /\ outcome = [t |-> "CommandError", message |-> ServerMessage]
         /\ reads = {0}

\* a term-group add whose third response (of several elements) carried ErrorInfo
ErrorInfoFailsCommandWitness ==
  /\ cmd = "add" /\ Done /\ Len(history) = 3
  /\ history[3].status = "errorinfo" /\ history[3].len >= 2
  /\ outcome.t = "CommandError"

\* which of the three requests of term-group add a request document is
RequestStep(req) ==
  IF \E i \in 1..Len(req.data) : req.data[i].tag = "SetProperty" THEN 3
  ELSE IF \E i \in 1..Len(req.data) :
            req.data[i].tag = "Method" /\ req.data[i].Name = "CreateGroup" THEN 2
  ELSE IF \E i \in 1..Len(req.data) :
            /\ req.data[i].tag = "Method"
            /\ req.data[i].Name = "GetDefaultSiteCollectionTermStore" THEN 1
  ELSE 0

DescriptionGiven == opts.description.t = "string" /\ opts.description.v # <<>>

\* C2: term-group add posts its ProcessQuery requests in the order term store,
\* CreateGroup, SetProperty; a request is posted only after the response to the
\* one before it arrived free of ErrorInfo; at most one request is in flight;
\* the third is posted exactly when a non-empty description was given.
RequestsOneAtATime ==
  cmd = "add" =>
    /\ \A k \in 1..Len(issued) : RequestStep(issued[k]) = k
    /\ Cardinality(inflight) <= 1
    /\ Len(issued) - Len(history) = Cardinality(inflight \ {"digest"})
    /\ \A k \in 2..Len(issued) : history[k - 1].status = "ok"
    /\ Len(issued) = 3 => DescriptionGiven
    /\ ( /\ Len(history) >= 2
         /\ history[2].status = "ok"
         /\ ~(Len(history) = 2 /\ Unhandled)
         /\ DescriptionGiven ) => Len(issued) = 3

\* the description request is in flight
RequestsOneAtATimeWitness ==
  cmd = "add" /\ Len(issued) = 3 /\ inflight = {"q3"} /\ Len(history) = 2

FailedStatus == {"transport", "errorinfo"}

\* C3: once a round trip of term-group add failed (the transport rejected, or
\* the response carried ErrorInfo) no further request is posted and the command
\* ends in error; no request is posted twice and none but the three is ever
\* posted, so a group that CreateGroup made stays on the server when the
\* description step fails.
NoRetryNoRollback ==
  cmd = "add" =>
    /\ \A k \in 1..Len(history) :
         history[k].status \in FailedStatus =>
           /\ Len(issued) = k
           /\ inflight = {}
           /\ Unhandled \/ (Done /\ outcome.t = "CommandError")
    /\ \A j, k \in 1..Len(issued) :
         RequestStep(issued[j]) = RequestStep(issued[k]) => j = k
    /\ \A k \in 1..Len(issued) : RequestStep(issued[k]) \in 1..3
    /\ digests <= 1
    /\ (Len(history) = 3 /\ history[2].status = "ok")
         => RequestedGroup(issued[2]) \in serverGroups

\* the description step failed after CreateGroup succeeded
NoRetryNoRollbackWitness ==
  /\ cmd = "add" /\ Done /\ Len(history) = 3
  /\ history[3].status \in FailedStatus
  /\ outcome.t = "CommandError"
  /\ RequestedGroup(issued[2]) \in serverGroups

\* the entity records passed to logger.log: a logged array's items, or the record
LoggedRecords ==
  UNION { IF logged[i].t = "array"
            THEN {logged[i].a[j] : j \in 1..Len(logged[i].a)}
            ELSE {logged[i]} : i \in 1..Len(logged) }

\* C4: no record passed to logger.log, by term-group add or term-set list, has
\* an _ObjectIdentity_ or an _ObjectType_ key.
NoInternalKeysLogged ==
  \A r \in LoggedRecords :
    "_ObjectIdentity_" \notin DOMAIN r.f /\ "_ObjectType_" \notin DOMAIN r.f

\* an option given with a non-empty value (the options are tested for truthiness)
Supplied(v) == v.t = "string" /\ v.v # <<>>
GuidOption == IF cmd = "list" THEN opts.termGroupId ELSE opts.id

\* C5: the validator returns true exactly when the webUrl, if supplied, is a
\* SharePoint site URL and the GUID option, if supplied, is a GUID; when it
\* does not return true no digest request and no ProcessQuery request is made.
ValidationDecides ==
  pc # "validate" =>
    /\ IsTrue(valid) <=>
         /\ Supplied(opts.webUrl) => IsTrue(isValidSharePointUrl(opts.webUrl))
         /\ Supplied(GuidOption) => isValidGuid(GuidOption)
    /\ ~IsTrue(valid) =>
         /\ Done
         /\ digests = 0 /\ issued = <<>> /\ inflight = {} /\ history = <<>>

\* a valid webUrl with an invalid GUID is rejected
ValidationDecidesWitness ==
  /\ Done /\ ~IsTrue(valid)
  /\ Supplied(opts.webUrl) /\ IsTrue(isValidSharePointUrl(opts.webUrl))
  /\ Supplied(GuidOption) /\ ~isValidGuid(GuidOption)

\* C6: a response text that is empty or is not JSON makes the command fail; no
\* round trip is accepted without its response being parsed.
UnparsedResponseFails ==
  \A k \in 1..Len(history) :
    history[k].status \in {"empty", "garbage"} =>
      \/ k = Len(history) /\ Unhandled
      \/ Done /\ outcome.t = "CommandError"

\* the object paths of a document that are a Method with Id 62
GroupMethods(doc) ==
  {i \in 1..Len(doc) : doc[i].tag = "Method" /\ doc[i].Id = 62}

\* the XML text of one character
XmlChar(c) ==
  CASE c = "&" -> <<"&", "a", "m", "p", ";">>
    [] c = "<" -> <<"&", "l", "t", ";">>
    [] c = ">" -> <<"&", "g", "t", ";">>
    [] c = "\"" -> <<"&", "q", "u", "o", "t", ";">>
    [] c = "'" -> <<"&", "a", "p", "o", "s", ";">>
    [] OTHER -> <<c>>

RECURSIVE XmlText(_)
XmlText(s) == IF s = <<>> THEN <<>> ELSE XmlChar(Head(s)) \o XmlText(Tail(s))

\* C7: the term-set list request has exactly one Method object path with Id 62,
\* and its ParentId is 60: GetById with the one parameter of type Guid holding
\* the termGroupId in braces when a termGroupId is supplied, else GetByName with
\* the one parameter of type String holding the XML-escaped termGroupName.
ListQueryShape ==
  (cmd = "list" /\ issued # <<>>) =>
    LET doc == issued[1].data
    IN /\ Cardinality(GroupMethods(doc)) = 1
       /\ \A i \in GroupMethods(doc) :
            /\ doc[i].ParentId = 60
            /\ Len(doc[i].Parameters) = 1
            /\ IF Supplied(opts.termGroupId)
                 THEN /\ doc[i].Name = "GetById"
                      /\ doc[i].Parameters[1] =
                           [Type |-> "Guid",
                            text |-> <<"{">> \o opts.termGroupId.v \o <<"}">>]
                 ELSE /\ doc[i].Name = "GetByName"
                      /\ doc[i].Parameters[1].Type = "String"
                      /\ Supplied(opts.termGroupName) =>
                           doc[i].Parameters[1].text = XmlText(opts.termGroupName.v)

\* a request by name, the name holding characters that XML reserves
ListQueryShapeWitness ==
  /\ cmd = "list" /\ issued # <<>> /\ ~Supplied(opts.termGroupId)
  /\ Supplied(opts.termGroupName)
  /\ \E i \in 1..Len(opts.termGroupName.v) : opts.termGroupName.v[i] \in {"&", "<"}

\* the array of the response text in reply, and its last element
ResponseArray == reply.v.v.a
LastElement == ResponseArray[Len(ResponseArray)]

\* C8: when a response array of one or more elements has no ErrorInfo in
\* element 0, what the handler takes as the round trip's result (result of
\* term-set list, termStore and termGroup of term-group add) is the array's
\* last element, whatever the array's length.
ResultIsLastElement ==
  [][ ( /\ pc \in {"q1", "q2"}
        /\ reply.t = "resolve"
        /\ Classify(reply) = "ok"
        /\ pc' # pc )
      => /\ reads' = {0, Len(ResponseArray) - 1}
         /\ CASE cmd = "list" -> result' = LastElement
              [] cmd = "add" /\ pc = "q1" -> termStore' = LastElement
              [] OTHER -> termGroup' = LastElement ]_vars

\* the term store was taken from a three-element response
ResultIsLastElementWitness ==
  /\ cmd = "add" /\ pc = "q2" /\ Len(history) = 1
  /\ history[1].status = "ok" /\ history[1].len = 3
  /\ termStore \in TermStores

\* the GUID text inside a wrapped Id, or none when the Id is not a wrapped GUID
WrappedGuid(id) ==
  IF /\ id.t = "string"
     /\ Len(id.v) > Len(GuidPrefix) + Len(WrapSuffix)
     /\ StartsWith(id.v, GuidPrefix)
     /\ SubSeq(id.v, Len(id.v) - 1, Len(id.v)) = WrapSuffix
     /\ GuidShape(SubSeq(id.v, Len(GuidPrefix) + 1, Len(id.v) - 2), 1)
    THEN {SubSeq(id.v, Len(GuidPrefix) + 1, Len(id.v) - 2)}
    ELSE {}

\* C9: an Id the server returned as /Guid(<guid>)/ is logged as <guid> alone,
\* for the group of term-group add and for each child item of term-set list.
LoggedIdIsBareGuid ==
  (Done /\ logged # <<>>) =>
    IF cmd = "add"
      THEN \A g \in WrappedGuid(Get(termGroup, "Id")) : logged[1].f["Id"] = Str(g)
      ELSE \A i \in 1..Len(logged[1].a) :
             \A g \in WrappedGuid(Get(Get(result, "_Child_Items_").a[i], "Id")) :
               logged[1].a[i].f["Id"] = Str(g)

\* two term sets with wrapped Ids were logged
LoggedIdIsBareGuidWitness ==
  /\ cmd = "list" /\ Done /\ Len(logged) = 1 /\ Len(logged[1].a) = 2
  /\ \A i \in 1..2 : WrappedGuid(Get(Get(result, "_Child_Items_").a[i], "Id")) # {}

\* the elements of a request document that define an object path
IsObjectPath(n) == n.tag \in {"StaticMethod", "Method", "Property", "Identity"}
HasParent(n) == "ParentId" \in DOMAIN n
IdsDistinct(doc) ==
  \A i, j \in 1..Len(doc) : doc[i].Id = doc[j].Id => i = j
ParentsEarlier(doc) ==
  \A i \in 1..Len(doc) :
    HasParent(doc[i]) => \E j \in 1..(i - 1) : doc[j].Id = doc[i].ParentId
ParentsDefined(doc) ==
  \A i \in 1..Len(doc) :
    HasParent(doc[i]) =>
      \E j \in 1..Len(doc) : IsObjectPath(doc[j]) /\ doc[j].Id = doc[i].ParentId

\* C10 as stated: in every request the Ids are pairwise distinct and every
\* ParentId refers to an Id defined earlier in the same document.
ParentIdsDefinedEarlier ==
  \A k \in 1..Len(issued) :
    IdsDistinct(issued[k].data) /\ ParentsEarlier(issued[k].data)

\* C10 as amended: in every request the Ids are pairwise distinct and every
\* ParentId refers to an object path defined in the same document; it is
\* defined earlier in every request but CreateGroup, whose Method 13 names as
\* its parent the Identity 6 that follows it.
ParentIdsDefined ==
  \A k \in 1..Len(issued) :
    /\ IdsDistinct(issued[k].data)
    /\ ParentsDefined(issued[k].data)
    /\ ParentsEarlier(issued[k].data) \/ (cmd = "add" /\ k = 2)

\* term-group add posted all three of its requests
ParentIdsDefinedWitness ==
  cmd = "add" /\ Len(issued) = 3 /\ ~ParentsEarlier(issued[2].data)

\* C11: term-group add calls logger.log at most once, and only when every
\* request it posted (two, or three with a description) was answered by a
\* response without ErrorInfo; a run in which a round trip failed (the
\* transport rejected, or the response carried ErrorInfo) logs nothing.
LogsOnceAfterSuccess ==
  cmd = "add" =>
    /\ Len(logged) <= 1
    /\ logged # <<>> =>
         /\ Done /\ outcome = Ok /\ inflight = {}
         /\ Len(issued) = IF DescriptionGiven THEN 3 ELSE 2
         /\ Len(history) = Len(issued)
         /\ \A k \in 1..Len(history) : history[k].status \notin FailedStatus
    /\ (\E k \in 1..Len(history) : history[k].status \in FailedStatus)
         => logged = <<>>

\* the group was logged after three answered requests
LogsOnceAfterSuccessWitness ==
  /\ cmd = "add" /\ Done /\ Len(logged) = 1
  /\ Len(issued) = 3 /\ history[3].status = "ok"

====
